---- MODULE Spec2Model ----
(***************************************************************************)
(* Model of app.py: the Streamlit dashboard of health-care centres of the  *)
(* Region Metropolitana.  Text values are TLA+ strings over ASCII (accents *)
(* are written without the accent: "Publico" stands for the label with an  *)
(* acute u); a missing value (pandas NaN) is the value NaN.                *)
(***************************************************************************)
EXTENDS Integers, Sequences, FiniteSets, TLC

\* ------------------------------------------------------------------ text

\* pandas' missing value (a float NaN in an object column): not a str.
NaN == "<NaN>"

\* isinstance(v, str) for the values a cell can hold.
IsStr(v) == v # NaN

\* The i-th character of s, as a string of length 1.
Ch(s, i) == SubSeq(s, i, i)

\* The characters in code-point order (Python compares str by code point).
CodePoints == " #()*,-./0123456789<>ABCDEFGHIJKLMNOPQRSTUVWXYZabcdefghijklmnopqrstuvwxyz"

Uppers == "ABCDEFGHIJKLMNOPQRSTUVWXYZ"

Lowers == "abcdefghijklmnopqrstuvwxyz"

\* The position of character c in string s, 0 when absent.
IndexOf(s, c) ==
    IF \E i \in 1..Len(s) : Ch(s, i) = c
    THEN CHOOSE i \in 1..Len(s) : Ch(s, i) = c /\ \A j \in 1..(i - 1) : Ch(s, j) # c
    ELSE 0

Chars == {Ch(CodePoints, i) : i \in 1..Len(CodePoints)}

OrdTable == [c \in Chars |-> IndexOf(CodePoints, c)]

\* ord(c), up to the order it gives.
Ord(c) == OrdTable[c]

LowerTable ==
    [c \in Chars |-> IF IndexOf(Uppers, c) > 0 THEN Ch(Lowers, IndexOf(Uppers, c)) ELSE c]

\* str.lower() of one character.
LowerCh(c) == LowerTable[c]

\* str.lower()
RECURSIVE Lower(_)
Lower(s) == IF s = "" THEN "" ELSE LowerCh(Ch(s, 1)) \o Lower(SubSeq(s, 2, Len(s)))

\* Python's `sub in s`.
Contains(s, sub) ==
    \E i \in 0..(Len(s) - Len(sub)) : SubSeq(s, i + 1, i + Len(sub)) = sub

\* Python's s < t on str.
RECURSIVE StrLess(_, _)
StrLess(s, t) ==
    IF t = "" THEN FALSE
    ELSE IF s = "" THEN TRUE
    ELSE IF Ch(s, 1) # Ch(t, 1) THEN Ord(Ch(s, 1)) < Ord(Ch(t, 1))
    ELSE StrLess(SubSeq(s, 2, Len(s)), SubSeq(t, 2, Len(t)))

\* str.strip() for the blank character.
RECURSIVE Strip(_)
Strip(s) ==
    IF s = "" THEN ""
    ELSE IF Ch(s, 1) = " " THEN Strip(SubSeq(s, 2, Len(s)))
    ELSE IF Ch(s, Len(s)) = " " THEN Strip(SubSeq(s, 1, Len(s) - 1))
    ELSE s

\* ---------------------------------------------------------------- loader

\* The cell texts pd.read_csv reads as missing (its default na_values).
NaValues ==
    {"", "#N/A", "#N/A N/A", "#NA", "-1.#IND", "-1.#QNAN", "-NaN", "-nan",
     "1.#IND", "1.#QNAN", "<NA>", "N/A", "NA", "NULL", "NaN", "None", "n/a",
     "nan", "null"}

\* pd.read_csv on one text cell of an object column.
ReadCell(t) == IF t \in NaValues THEN NaN ELSE t

Digits == "0123456789"

RECURSIVE AllDigits(_)
AllDigits(s) ==
    s = "" \/ (IndexOf(Digits, Ch(s, 1)) > 0 /\ AllDigits(SubSeq(s, 2, Len(s))))

\* The natural number a string of digits denotes.
RECURSIVE DigitsToNat(_)
DigitsToNat(s) ==
    IF s = "" THEN 0
    ELSE 10 * DigitsToNat(SubSeq(s, 1, Len(s) - 1)) + (IndexOf(Digits, Ch(s, Len(s))) - 1)

\* A fraction without its trailing zeros.
RECURSIVE StripZeros(_)
StripZeros(s) ==
    IF s # "" /\ Ch(s, Len(s)) = "0" THEN StripZeros(SubSeq(s, 1, Len(s) - 1)) ELSE s

\* A numeric cell is <<m, e>>, the number m / 10^e; the numeric NaN is <<>>.
NumNaN == <<>>

\* pd.to_numeric(..., errors="coerce") on one cell: [-]digits[.digits] is read
\* as a number, every other text over letters, digits, '-', '.', ',' (no
\* exponent, inf or nan spelling) and a missing cell become NaN.
ToNumeric(v) ==
    IF ~IsStr(v) THEN NumNaN
    ELSE LET neg  == Len(v) > 0 /\ Ch(v, 1) = "-"
             body == IF neg THEN SubSeq(v, 2, Len(v)) ELSE v
             dot  == IndexOf(body, ".")
             ent  == IF dot = 0 THEN body ELSE SubSeq(body, 1, dot - 1)
             frac == IF dot = 0 THEN "" ELSE SubSeq(body, dot + 1, Len(body))
         IN  IF AllDigits(ent) /\ AllDigits(frac) /\ Len(ent) + Len(frac) > 0
             THEN LET f == StripZeros(frac)
                      m == DigitsToNat(ent \o f)
                  IN  <<IF neg THEN 0 - m ELSE m, Len(f)>>
             ELSE NumNaN

\* Series.fillna("")
FillNa(v) == IF IsStr(v) THEN v ELSE ""

\* The composite address of one row.
Direccion(row) ==
    Strip(FillNa(ReadCell(row.TipoViaGlosa)) \o " " \o
          FillNa(ReadCell(row.NombreVia)) \o " " \o
          FillNa(ReadCell(row.Numero)))

\* clasificar with the public markers tested before the private one.
clasificar_swapped(dep) ==
    IF ~IsStr(dep) THEN "Otro"
    ELSE LET d == Lower(dep)
         IN  IF Contains(d, "municipal") \/ Contains(d, "servicio de salud")
                \/ Contains(d, "seremi") THEN "Publico"
             ELSE IF Contains(d, "privad") THEN "Privado"
             ELSE "Otro"

\* Publico / Privado / Otro from the administrative dependency.
clasificar(dep) ==
    IF ~IsStr(dep) THEN "Otro"
    ELSE LET d == Lower(dep)
         IN  IF Contains(d, "privad") THEN "Privado"
             ELSE IF Contains(d, "municipal") \/ Contains(d, "servicio de salud")
                     \/ Contains(d, "seremi") THEN "Publico"
             ELSE "Otro"

\* RegionGlosa.str.contains("Metropolitana", na=False)
EnRegion(row) ==
    LET g == ReadCell(row.RegionGlosa)
    IN  IsStr(g) /\ Contains(g, "Metropolitana")

\* Latitud / Longitud of one row after the coercion.
Coordenada(cell) == ToNumeric(ReadCell(cell))

\* One row of df_rm; Indice is the row label pandas gives it (its position
\* in the file, which the region filter keeps).
Registro(row, i) ==
    [Indice                   |-> i - 1,
     EstablecimientoGlosa     |-> ReadCell(row.EstablecimientoGlosa),
     ComunaGlosa              |-> ReadCell(row.ComunaGlosa),
     TipoEstablecimientoGlosa |-> ReadCell(row.TipoEstablecimientoGlosa),
     DependenciaAdministrativa |-> ReadCell(row.DependenciaAdministrativa),
     NivelAtencionEstabglosa  |-> ReadCell(row.NivelAtencionEstabglosa),
     Latitud                  |-> Coordenada(row.Latitud),
     Longitud                 |-> Coordenada(row.Longitud),
     Direccion                |-> Direccion(row),
     SistemaSalud             |-> clasificar(ReadCell(row.DependenciaAdministrativa))]

\* The subsequence of s at the positions in K, from position i on.
RECURSIVE SelectIdx(_, _, _)
SelectIdx(s, i, K) ==
    IF i > Len(s) THEN <<>>
    ELSE (IF i \in K THEN <<s[i]>> ELSE <<>>) \o SelectIdx(s, i + 1, K)

\* cargar_datos() on the file f: the rows of the region, in file order.
\* str_nombre is the dtype of the EstablecimientoGlosa column: read_csv makes
\* it an object (text) column when some cell of the file holds text, and a
\* float column when every cell is missing.
cargar_datos(f) ==
    LET todos == [i \in 1..Len(f) |-> Registro(f[i], i)]
    IN  [filas      |-> SelectIdx(todos, 1, {i \in 1..Len(f) : EnRegion(f[i])}),
         str_nombre |-> \E i \in 1..Len(f) : IsStr(ReadCell(f[i].EstablecimientoGlosa))]

\* ------------------------------------------------------- regular expressions

\* re.compile(pat, re.IGNORECASE) for patterns over letters, '.', '*', '(' and
\* ')' without a closed group: an open or a stray parenthesis and a '*' with
\* nothing to repeat (first, or after another '*') raise re.error.
PatronValido(pat) ==
    /\ ~Contains(pat, "(")
    /\ ~Contains(pat, ")")
    /\ \A i \in 1..Len(pat) : Ch(pat, i) = "*" => (i > 1 /\ Ch(pat, i - 1) # "*")

\* The compiled pattern: its atoms <<character, starred>> in order.
RECURSIVE Atomos(_)
Atomos(pat) ==
    IF pat = "" THEN <<>>
    ELSE IF Len(pat) > 1 /\ Ch(pat, 2) = "*"
         THEN <<<<Ch(pat, 1), TRUE>>>> \o Atomos(SubSeq(pat, 3, Len(pat)))
         ELSE <<<<Ch(pat, 1), FALSE>>>> \o Atomos(SubSeq(pat, 2, Len(pat)))

\* One atom against one character, ignoring case; '.' is any character.
AtomoAcepta(a, c) == a[1] = "." \/ LowerCh(a[1]) = LowerCh(c)

\* The atoms from the k-th on match s at position i.
RECURSIVE MatchAt(_, _, _, _)
MatchAt(atoms, k, s, i) ==
    IF k > Len(atoms) THEN TRUE
    ELSE IF atoms[k][2]
         THEN \/ MatchAt(atoms, k + 1, s, i)
              \/ (i <= Len(s) /\ AtomoAcepta(atoms[k], Ch(s, i)) /\ MatchAt(atoms, k, s, i + 1))
         ELSE i <= Len(s) /\ AtomoAcepta(atoms[k], Ch(s, i)) /\ MatchAt(atoms, k + 1, s, i + 1)

\* regex.search(s) is not None
Search(pat, s) == \E i \in 1..(Len(s) + 1) : MatchAt(Atomos(pat), 1, s, i)

\* One element of Series.str.contains(pat, case=False, na=False).
str_contains(v, pat) == IsStr(v) /\ Search(pat, v)

\* ------------------------------------------------------ filter and sort

\* sorted(df[col].dropna().unique()), as the set of its elements.
Opciones(df, col) == {df.filas[i][col] : i \in 1..Len(df.filas)} \ {NaN}

comunas(df) == Opciones(df, "ComunaGlosa")

tipos(df) == Opciones(df, "TipoEstablecimientoGlosa")

sistemas(df) == Opciones(df, "SistemaSalud")

niveles(df) == Opciones(df, "NivelAtencionEstabglosa")

\* The widgets' values on the first run of the script.
Defecto(df) ==
    [nombre_filtro |-> "",
     comunas_sel   |-> comunas(df),
     tipos_sel     |-> tipos(df),
     sistemas_sel  |-> sistemas(df),
     niveles_sel   |-> niveles(df),
     orden_campo   |-> "Nombre",
     orden_dir     |-> "A -> Z"]

columna_orden(sel) ==
    IF sel.orden_campo = "Nombre" THEN "EstablecimientoGlosa" ELSE "ComunaGlosa"

asc(sel) == Ch(sel.orden_dir, 1) = "A"

\* The text filter raises: .str on a column that is not text, or re.error.
FiltroNombreFalla(df, sel) ==
    sel.nombre_filtro # "" /\ (~df.str_nombre \/ ~PatronValido(sel.nombre_filtro))

\* The text filter keeps row r.
PasaNombre(r, sel) ==
    sel.nombre_filtro = "" \/ str_contains(r.EstablecimientoGlosa, sel.nombre_filtro)

\* Series.isin(values)
isin(v, values) == v \in values

\* The four membership filters keep row r.
PasaSelecciones(r, sel) ==
    /\ isin(r.ComunaGlosa, sel.comunas_sel)
    /\ isin(r.TipoEstablecimientoGlosa, sel.tipos_sel)
    /\ isin(r.SistemaSalud, sel.sistemas_sel)
    /\ isin(r.NivelAtencionEstabglosa, sel.niveles_sel)

\* df_filtrado before the sort: the rows kept, in the order of df.
Filtrar(df, sel) ==
    SelectIdx(df.filas, 1,
              {i \in 1..Len(df.filas) :
                  PasaNombre(df.filas[i], sel) /\ PasaSelecciones(df.filas[i], sel)})

\* Row a goes before row b in sort_values(by=col, ascending=ascending):
\* rows with a missing key go last, in their original order; the others go
\* by key; rows with equal keys go in the order the sort algorithm leaves
\* them, which the default kind ("quicksort") does not promise to be the
\* original one: tie is that order, "original" or "inverso".
Antes(a, b, col, ascending, tie) ==
    IF a[col] = NaN \/ b[col] = NaN
    THEN IF a[col] = NaN /\ b[col] = NaN THEN a.Indice < b.Indice ELSE b[col] = NaN
    ELSE IF a[col] # b[col]
         THEN IF ascending THEN StrLess(a[col], b[col]) ELSE StrLess(b[col], a[col])
         ELSE IF tie = "original" THEN a.Indice < b.Indice ELSE b.Indice < a.Indice

\* The rows of the set S in the order Antes gives.
RECURSIVE Ordenar(_, _, _, _)
Ordenar(S, col, ascending, tie) ==
    IF S = {} THEN <<>>
    ELSE LET m == CHOOSE x \in S : \A y \in S \ {x} : Antes(x, y, col, ascending, tie)
         IN  <<m>> \o Ordenar(S \ {m}, col, ascending, tie)

Range(s) == {s[i] : i \in 1..Len(s)}

\* sort_values that ignores ascending.
sort_values_sinDireccion(rows, col, ascending, tie) == Ordenar(Range(rows), col, TRUE, tie)

\* DataFrame.sort_values(by=col, ascending=ascending)
sort_values(rows, col, ascending, tie) == Ordenar(Range(rows), col, ascending, tie)

\* df_filtrado after the sort.
df_filtrado(df, sel, tie) == sort_values(Filtrar(df, sel), columna_orden(sel), asc(sel), tie)

\* df_mapa with dropna(subset=["Latitud"]).
df_mapa_soloLatitud(rows) ==
    LET conCoord == SelectIdx(rows, 1, {i \in 1..Len(rows) : rows[i].Latitud # NumNaN})
    IN  [i \in 1..Len(conCoord) |->
            [Indice |-> conCoord[i].Indice, lat |-> conCoord[i].Latitud,
             lon |-> conCoord[i].Longitud]]

\* df_filtrado.dropna(subset=["Latitud", "Longitud"])[["lat", "lon"]]
df_mapa(rows) ==
    LET conCoord == SelectIdx(rows, 1,
                        {i \in 1..Len(rows) :
                            rows[i].Latitud # NumNaN /\ rows[i].Longitud # NumNaN})
    IN  [i \in 1..Len(conCoord) |->
            [Indice |-> conCoord[i].Indice, lat |-> conCoord[i].Latitud,
             lon |-> conCoord[i].Longitud]]

\* df_filtrado[cols_existentes]
TablaDe(rows) ==
    [i \in 1..Len(rows) |->
        [Indice                   |-> rows[i].Indice,
         EstablecimientoGlosa     |-> rows[i].EstablecimientoGlosa,
         TipoEstablecimientoGlosa |-> rows[i].TipoEstablecimientoGlosa,
         ComunaGlosa              |-> rows[i].ComunaGlosa,
         Direccion                |-> rows[i].Direccion,
         SistemaSalud             |-> rows[i].SistemaSalud,
         NivelAtencionEstabglosa  |-> rows[i].NivelAtencionEstabglosa]]

\* The three metrics: total, Publicos, Privados.
Resumen(rows) ==
    <<Len(rows),
      Cardinality({i \in 1..Len(rows) : rows[i].SistemaSalud = "Publico"}),
      Cardinality({i \in 1..Len(rows) : rows[i].SistemaSalud = "Privado"})>>

\* ------------------------------------------------------------ the program

VARIABLES
    csv,          \* the rows of establecimientos_20251014.csv
    desempate,    \* the order the build's sort leaves rows with equal keys in
    cache_datos,  \* st.cache_data of cargar_datos: <<>> or <<its result>>
    df_inicial,   \* history: what the first cargar_datos() returned
    sel,          \* the sidebar widgets' values of the last run
    estado,       \* "inicio", or how the last run ended: "ok" or "error"
    vista,        \* df_filtrado of the last run
    tabla,        \* the rows given to st.dataframe
    mapa,         \* the rows given to st.map
    resumen,      \* the three metrics
    api_cache,    \* st.cache_data of consultar_api_datos_gob, by arguments
    gets,         \* history: the arguments of the GETs issued, in order
    ultima        \* the last click of "Consultar API datos.gob.cl"

vars == <<csv, desempate, cache_datos, df_inicial, sel, estado, vista, tabla, mapa,
          resumen, api_cache, gets, ultima>>

varsApp == <<csv, desempate, cache_datos, df_inicial, sel, estado, vista, tabla, mapa, resumen>>

varsApi == <<api_cache, gets, ultima>>

\* The longest file.
MaxRows == 2

Fila(region, nombre, comuna, tipo, dep, nivel, lat, lon, via, nombreVia, numero) ==
    [RegionGlosa |-> region, EstablecimientoGlosa |-> nombre, ComunaGlosa |-> comuna,
     TipoEstablecimientoGlosa |-> tipo, DependenciaAdministrativa |-> dep,
     NivelAtencionEstabglosa |-> nivel, Latitud |-> lat, Longitud |-> lon,
     TipoViaGlosa |-> via, NombreVia |-> nombreVia, Numero |-> numero]

RM == "Metropolitana de Santiago"

\* The lines a file is made of.
Catalogo ==
    {Fila(RM, "Beta", "Maipu", "Hospital", "Privado", "Primario",
          "-33.5", "-70.7", "Avenida", "Pajaritos", "S/N"),
     Fila(RM, "Alpha", "Maipu", "Hospital", "Municipal", "Primario",
          "not-a-number", "-70.60", "", "Central", ""),
     Fila(RM, "alba", "Nunoa", "", "", "", "", "", "", "", ""),
     Fila(RM, "", "Nunoa", "Hospital", "Servicio de Salud", "Primario",
          "-33.4", "33,45", "Calle", "", "12-B")}

\* The lines of the files that exercise the classifier and the region filter.
CatalogoDependencias ==
    {Fila(RM, "Uno", "Maipu", "Hospital", dep, "Primario", "-33.5", "-70.7", "", "", "") :
        dep \in {"", "Privado", "CLINICA PRIVADA", "Municipal",
                 "Corporacion Municipal Privada", "Servicio de Salud Privado",
                 "Servicio de Salud", "SEREMI", "Seremi privada",
                 "Fuerzas Armadas", "Servicio  de Salud", "Privda municipio"}}
    \cup {Fila("Valparaiso", "Gama", "Vina", "Hospital", "Municipal", "Primario",
                "-33.0", "-71.5", "Calle", "Uno", "S/N")}

Archivos(catalogo) == UNION {[1..n -> catalogo] : n \in 1..MaxRows}

\* The text queries typed in "Buscar por nombre".
Consultas == {"", "al", ".", "(", "a*"}

SinVista ==
    /\ vista = <<>>
    /\ tabla = <<>>
    /\ mapa = <<>>
    /\ resumen = <<0, 0, 0>>

InitApp(catalogo) ==
    /\ csv \in Archivos(catalogo)
    /\ desempate \in {"original", "inverso"}
    /\ cache_datos = <<>>
    /\ df_inicial = <<>>
    /\ sel = [nombre_filtro |-> "", comunas_sel |-> {}, tipos_sel |-> {},
              sistemas_sel |-> {}, niveles_sel |-> {}, orden_campo |-> "Nombre",
              orden_dir |-> "A -> Z"]
    /\ estado = "inicio"
    /\ SinVista

\* A run that filters and sorts the cached frame in place.
CacheTrasRender_enSitio(cache, filtrado) == [cache EXCEPT !.filas = filtrado]

\* What a run leaves in the cache of cargar_datos: the script works on copies
\* (st.cache_data hands out a copy, df.copy(), and every filter and the sort
\* return new frames), so the cached dataset is what it was.
CacheTrasRender(cache, filtrado) == cache

\* The script from the filters on, with the widgets at s, on the dataset df.
Script(df, s) ==
    /\ sel' = s
    /\ IF FiltroNombreFalla(df, s)
       THEN /\ estado' = "error"
            /\ vista' = <<>>
            /\ cache_datos' = <<df>>
       ELSE /\ estado' = "ok"
            /\ vista' = df_filtrado(df, s, desempate)
            /\ cache_datos' = <<CacheTrasRender(df, vista')>>
    /\ resumen' = Resumen(vista')
    /\ mapa' = df_mapa(vista')
    /\ tabla' = TablaDe(vista')

\* The first run of the script: cargar_datos() reads the file, and every
\* widget has its default value.
PrimerRender ==
    /\ cache_datos = <<>>
    /\ LET df == cargar_datos(csv)
       IN  /\ df_inicial' = <<df>>
           /\ Script(df, Defecto(df))
    /\ UNCHANGED <<csv, desempate, varsApi>>

\* The sidebar's widgets.
Widgets ==
    {"nombre_filtro", "comunas_sel", "tipos_sel", "sistemas_sel", "niveles_sel",
     "orden_campo", "orden_dir"}

\* The values the user can give widget w.
Valores(df, w) ==
    CASE w = "nombre_filtro" -> Consultas
      [] w = "comunas_sel"   -> SUBSET comunas(df)
      [] w = "tipos_sel"     -> SUBSET tipos(df)
      [] w = "sistemas_sel"  -> SUBSET sistemas(df)
      [] w = "niveles_sel"   -> SUBSET niveles(df)
      [] w = "orden_campo"   -> {"Nombre", "Comuna"}
      [] w = "orden_dir"     -> {"A -> Z", "Z -> A"}

\* A rerun of the script: the user gave one widget another value (Streamlit
\* reruns the script on every change of a widget), the other widgets keep
\* theirs, and cargar_datos() answers from its cache.
Render ==
    /\ cache_datos # <<>>
    /\ \E w \in Widgets : \E v \in Valores(cache_datos[1], w) \ {sel[w]} :
          Script(cache_datos[1], [sel EXCEPT ![w] = v])
    /\ UNCHANGED <<csv, desempate, df_inicial, varsApi>>

\* ------------------------------------------------------- the remote query

\* The most GETs followed in one run of the process.
MaxGets == 3

\* What is typed in "Resource ID de datos.gob.cl".
ResourceIds == {"a", " a ", "b"}

\* "Cantidad de filas a descargar": the ends of the number input's range.
Limites == {10, 200}

\* The arguments of consultar_api_datos_gob for the inputs.
Par(rid, limite) == <<Strip(rid), limite>>

Pares == {Par(rid, limite) : rid \in ResourceIds, limite \in Limites}

\* A body of a response: not JSON at all, a JSON array, or a JSON object
\* with its "success" (absent, false or true), its "result" (absent, null or
\* an object) and the "records" of the result (absent, or a list).
Cuerpo(tipo, success, result, hayRecords, records) ==
    [tipo |-> tipo, success |-> success, result |-> result,
     hay_records |-> hayRecords, records |-> records]

Cuerpos ==
    {Cuerpo("no_json", "ausente", "ausente", FALSE, <<>>),
     Cuerpo("lista", "ausente", "ausente", FALSE, <<>>)}
    \cup {Cuerpo("objeto", sc, "ausente", FALSE, <<>>) : sc \in {"ausente", "false", "true"}}
    \cup {Cuerpo("objeto", sc, "null", FALSE, <<>>) : sc \in {"false", "true"}}
    \cup {Cuerpo("objeto", "true", "objeto", FALSE, <<>>)}
    \cup {Cuerpo("objeto", sc, "objeto", TRUE, rs) :
            sc \in {"false", "true"}, rs \in {<<>>, <<"r1">>, <<"r1", "r2">>}}

\* What requests.get gives: a RequestException, or a response.
Respuestas ==
    {[red |-> "falla", status |-> 0, cuerpo |-> Cuerpo("no_json", "ausente", "ausente", FALSE, <<>>)]}
    \cup {[red |-> "ok", status |-> st, cuerpo |-> c] : st \in {200}, c \in Cuerpos}
    \cup {[red |-> "ok", status |-> st, cuerpo |-> Cuerpo("no_json", "ausente", "ausente", FALSE, <<>>)] :
            st \in {404, 500}}

\* How a call ends: with an exception, or with the condition it reported
\* ("conexion", "status", "warning", "info" or "ninguna") and what it
\* returned (None, or the table's rows).
Fin(excepcion, cond, none, filas) ==
    [excepcion |-> excepcion, cond |-> cond, none |-> none, filas |-> filas]

\* The body of consultar_api_datos_gob on the outcome of its GET.
Consulta(resp) ==
    IF resp.red = "falla" THEN Fin(FALSE, "conexion", TRUE, <<>>)
    ELSE IF resp.status # 200 THEN Fin(FALSE, "status", TRUE, <<>>)
    ELSE LET data == resp.cuerpo
         IN  IF data.tipo = "no_json" THEN Fin(TRUE, "ninguna", TRUE, <<>>)   \* r.json() raises
             ELSE IF data.tipo = "lista" THEN Fin(TRUE, "ninguna", TRUE, <<>>) \* list has no .get
             ELSE IF data.success # "true" THEN Fin(FALSE, "warning", TRUE, <<>>)
             ELSE IF data.result = "null" THEN Fin(TRUE, "ninguna", TRUE, <<>>) \* None has no .get
             ELSE LET records == IF data.result = "objeto" /\ data.hay_records
                                 THEN data.records ELSE <<>>
                  IN  IF records = <<>> THEN Fin(FALSE, "info", TRUE, <<>>)
                      ELSE Fin(FALSE, "ninguna", FALSE, records)

\* What the button's handler shows for the call's end.
Aviso(fin) ==
    IF fin.excepcion THEN "excepcion"
    ELSE IF ~fin.none /\ fin.filas # <<>> THEN "success"
    ELSE "warning"

SinEntrada == [llena |-> FALSE, fin |-> Fin(FALSE, "ninguna", TRUE, <<>>)]

\* The place of a response where no request was made.
SinRespuesta ==
    [red |-> "ninguna", status |-> 0,
     cuerpo |-> Cuerpo("no_json", "ausente", "ausente", FALSE, <<>>)]

InitApi ==
    /\ api_cache = [p \in Pares |-> SinEntrada]
    /\ gets = <<>>
    /\ ultima = [par |-> <<"", 0>>, get |-> FALSE, resp |-> SinRespuesta,
                 fin |-> Fin(FALSE, "ninguna", TRUE, <<>>), aviso |-> "ninguno"]

\* What st.cache_data keeps of a call that ended with fin: a call that
\* raised leaves no entry.
Memo(entrada, fin) == IF fin.excepcion THEN entrada ELSE [llena |-> TRUE, fin |-> fin]

\* A click on the button with arguments not in the cache: one GET.
ConsultarApiGet(rid, limite, resp) ==
    LET p   == Par(rid, limite)
        fin == Consulta(resp)
    IN  /\ ~api_cache[p].llena
        /\ Len(gets) < MaxGets
        /\ gets' = Append(gets, p)
        /\ api_cache' = [api_cache EXCEPT ![p] = Memo(@, fin)]
        /\ ultima' = [par |-> p, get |-> TRUE, resp |-> resp, fin |-> fin,
                      aviso |-> Aviso(fin)]
        /\ UNCHANGED varsApp

\* A click on the button with arguments in the cache: the kept result and
\* its message again, without a request.
ConsultarApiCache(rid, limite) ==
    LET p == Par(rid, limite)
    IN  /\ api_cache[p].llena
        /\ ultima' = [par |-> p, get |-> FALSE, resp |-> SinRespuesta,
                      fin |-> api_cache[p].fin, aviso |-> Aviso(api_cache[p].fin)]
        /\ UNCHANGED <<api_cache, gets, varsApp>>

\* ---------------------------------------------------------- specifications

Init == InitApp(Catalogo) /\ InitApi

Next == PrimerRender \/ Render

\* The dashboard: the first run and the reruns of the script.
Spec == Init /\ [][Next]_vars

InitClasificador == InitApp(CatalogoDependencias) /\ InitApi

NextClasificador == PrimerRender

\* The load of files that differ in DependenciaAdministrativa.
SpecClasificador == InitClasificador /\ [][NextClasificador]_vars

InitConsulta ==
    /\ csv = <<>>
    /\ desempate = "original"
    /\ cache_datos = <<>>
    /\ df_inicial = <<>>
    /\ sel = [nombre_filtro |-> "", comunas_sel |-> {}, tipos_sel |-> {},
              sistemas_sel |-> {}, niveles_sel |-> {}, orden_campo |-> "Nombre",
              orden_dir |-> "A -> Z"]
    /\ estado = "inicio"
    /\ SinVista
    /\ InitApi

NextConsulta ==
    \/ \E rid \in ResourceIds, limite \in Limites, resp \in Respuestas :
          ConsultarApiGet(rid, limite, resp)
    \/ \E rid \in ResourceIds, limite \in Limites : ConsultarApiCache(rid, limite)

\* The clicks on "Consultar API datos.gob.cl".
SpecConsulta == InitConsulta /\ [][NextConsulta]_vars

\* ------------------------------------------------------------- properties

\* The dataset the first run loaded.
Cargado == df_inicial[1]

\* The rows of the loaded dataset that satisfy the widgets' four
\* memberships, as the specification words them.
EnSeleccion(r) ==
    /\ r.ComunaGlosa \in sel.comunas_sel
    /\ r.TipoEstablecimientoGlosa \in sel.tipos_sel
    /\ r.SistemaSalud \in sel.sistemas_sel
    /\ r.NivelAtencionEstabglosa \in sel.niveles_sel

\* The three filters other than the commune's are at their default.
OtrosPorDefecto ==
    /\ sel.nombre_filtro = ""
    /\ sel.tipos_sel = tipos(Cargado)
    /\ sel.sistemas_sel = sistemas(Cargado)
    /\ sel.niveles_sel = niveles(Cargado)

\* C1: the filtered view of a run holds exactly the records that pass the
\* text filter and the four memberships; and with the other three filters at
\* their default, selecting the communes S gives exactly the records whose
\* commune is in S.
C1_FiltroConjuncion ==
    estado = "ok" =>
        /\ Range(vista) = {r \in Range(Cargado.filas) : PasaNombre(r, sel) /\ EnSeleccion(r)}
        /\ OtrosPorDefecto =>
              Range(vista) = {r \in Range(Cargado.filas) : r.ComunaGlosa \in sel.comunas_sel}

\* C2: with no interaction (empty query, the four selections at their
\* default) the filtered view holds every record of the dataset, those with
\* a missing commune, type or level included.
C2_SinInteraccion ==
    (estado = "ok" /\ OtrosPorDefecto /\ sel.comunas_sel = comunas(Cargado)) =>
        Range(vista) = Range(Cargado.filas)

\* The name holds q as a literal substring, ignoring case.
ContieneLiteral(nombre, q) == IsStr(nombre) /\ Contains(Lower(nombre), Lower(q))

\* C3: for every non-empty query q a run keeps a record iff its name is
\* present and holds q as a literal substring ignoring case (whatever the
\* characters of q), and the empty query removes no record.
C3_FiltroTextoLiteral ==
    estado # "inicio" =>
        /\ estado = "ok"
        /\ Range(vista) =
              {r \in Range(Cargado.filas) :
                  /\ EnSeleccion(r)
                  /\ sel.nombre_filtro # "" =>
                        ContieneLiteral(r.EstablecimientoGlosa, sel.nombre_filtro)}

\* The key of the i-th row of the view.
Clave(i) == vista[i][columna_orden(sel)]

\* Rows i < j of the view are in the chosen direction by their keys.
EnDireccion(i, j) ==
    IF asc(sel) THEN ~StrLess(Clave(j), Clave(i)) ELSE ~StrLess(Clave(i), Clave(j))

\* The sort changed the order only: the view is the filtered rows, each once.
MismoConjunto ==
    /\ Range(vista) = Range(Filtrar(Cargado, sel))
    /\ Len(vista) = Len(Filtrar(Cargado, sel))

SectorSegunSpec(dep) ==
    IF ~IsStr(dep) THEN "Otro"
    ELSE IF Contains(Lower(dep), "privad") THEN "Privado"
    ELSE IF \E marca \in {"municipal", "servicio de salud", "seremi"} :
                Contains(Lower(dep), marca) THEN "Publico"
    ELSE "Otro"

\* The sector expected of the dependencies of the classifier's files.
SectorEsperado ==
    [dep \in {"Privado", "CLINICA PRIVADA", "Corporacion Municipal Privada",
              "Servicio de Salud Privado", "Seremi privada", "Municipal",
              "Servicio de Salud", "SEREMI", "Fuerzas Armadas", "Servicio  de Salud",
              "Privda municipio"} |->
        IF dep \in {"Privado", "CLINICA PRIVADA", "Corporacion Municipal Privada",
                    "Servicio de Salud Privado", "Seremi privada"} THEN "Privado"
        ELSE IF dep \in {"Municipal", "Servicio de Salud", "SEREMI"} THEN "Publico"
        ELSE "Otro"]

\* C9: every record of the loaded dataset carries a sector among Publico,
\* Privado and Otro, decided by its dependency alone: Otro for a missing
\* one, Privado when the lower-cased text has the private marker (also next
\* to a public one), else Publico when it has a public marker, else Otro.
C9_Clasificador ==
    cache_datos # <<>> =>
        \A r \in Range(cache_datos[1].filas) :
            /\ r.SistemaSalud \in {"Publico", "Privado", "Otro"}
            /\ r.SistemaSalud = SectorSegunSpec(r.DependenciaAdministrativa)
            /\ IF IsStr(r.DependenciaAdministrativa)
               THEN r.SistemaSalud = SectorEsperado[r.DependenciaAdministrativa]
               ELSE r.SistemaSalud = "Otro"

\* C9's case: a loaded record whose dependency has both markers, one with a
\* public marker alone, and one without dependency.
C9_AmbasMarcas ==
    /\ cache_datos # <<>>
    /\ \E r \in Range(cache_datos[1].filas) :
          r.DependenciaAdministrativa = "Corporacion Municipal Privada"
          /\ r.SistemaSalud = "Privado"
    /\ \E r \in Range(cache_datos[1].filas) :
          r.DependenciaAdministrativa = "SEREMI" /\ r.SistemaSalud = "Publico"

\* The cells of the files that are no number.
NoNumericas == {"not-a-number", "33,45", ""}

\* C10: a coordinate that is no number is missing after the load and its
\* record is loaded all the same; every filtered record is in the table, and
\* the map gets exactly the filtered records with both coordinates.
C10_Coordenadas ==
    cache_datos # <<>> =>
        /\ \A i \in 1..Len(csv) :
              EnRegion(csv[i]) =>
                 \E r \in Range(cache_datos[1].filas) :
                    /\ r.Indice = i - 1
                    /\ csv[i].Latitud \in NoNumericas <=> r.Latitud = NumNaN
                    /\ csv[i].Longitud \in NoNumericas <=> r.Longitud = NumNaN
                    /\ csv[i].Longitud = "-70.60" => r.Longitud = <<-706, 1>>
        /\ estado = "ok" =>
              /\ {tabla[i].Indice : i \in 1..Len(tabla)} =
                    {r.Indice : r \in {x \in Range(Cargado.filas) :
                                          PasaNombre(x, sel) /\ PasaSelecciones(x, sel)}}
              /\ Len(tabla) = Len(vista)
              /\ {mapa[i].Indice : i \in 1..Len(mapa)} =
                    {r.Indice : r \in {x \in Range(vista) :
                                          x.Latitud # NumNaN /\ x.Longitud # NumNaN}}
              /\ \A i \in 1..Len(mapa) : mapa[i].lat # NumNaN /\ mapa[i].lon # NumNaN

\* C10's case: a view with a record on the map and one whose latitude was
\* no number, both in the table.
C10_TablaSinMapa ==
    /\ estado = "ok"
    /\ Len(tabla) = 2
    /\ Len(mapa) = 1
    /\ \E i \in 1..Len(csv) : csv[i].Latitud = "not-a-number"
    /\ \E r \in Range(vista) : r.Latitud = NumNaN /\ r.Longitud # NumNaN

\* The five ends of a call the specification names, for what the GET gave.
FinSegunSpec(r) ==
    IF r.red = "falla" THEN Fin(FALSE, "conexion", TRUE, <<>>)
    ELSE IF r.status # 200 THEN Fin(FALSE, "status", TRUE, <<>>)
    ELSE IF r.cuerpo.success # "true" THEN Fin(FALSE, "warning", TRUE, <<>>)
    ELSE IF ~r.cuerpo.hay_records \/ r.cuerpo.records = <<>>
         THEN Fin(FALSE, "info", TRUE, <<>>)
    ELSE Fin(FALSE, "ninguna", FALSE, r.cuerpo.records)

\* C6: every call ends in one of five ways, decided in this order: a
\* connection error; a status error; a warning for a success flag false or
\* absent; an informational condition for no records; else a table with one
\* row per record and no condition.
C6_CincoFinales ==
    ultima.aviso # "ninguno" =>
        /\ ultima.get => ultima.fin = FinSegunSpec(ultima.resp)
        /\ ~ultima.fin.excepcion
        /\ ultima.fin.none <=> ultima.fin.cond # "ninguna"

\* C7: whatever the GET gives, the client returns a table or no data and no
\* exception reaches the run of the script.
C7_SinExcepcion == ~ultima.fin.excepcion /\ ultima.aviso # "excepcion"

\* C8: at most one GET is issued per pair of arguments; a call answered from
\* the cache issues none and gives what the first call gave.
C8_UnGetPorPar ==
    /\ \A i, j \in 1..Len(gets) : i # j => gets[i] # gets[j]
    /\ ~ultima.get /\ ultima.aviso # "ninguno" =>
          (api_cache[ultima.par].llena /\ ultima.fin = api_cache[ultima.par].fin)

====
